---- MODULE Spec2Model ----
(***************************************************************************)
(* PdfMatrix (src/pikepdf/models/matrix.py): an immutable 3x3 matrix value *)
(* with a duck-typed constructor, composition (@), the scaled / rotated /  *)
(* translated builders, the accessors a..f, shorthand, __eq__ and encode.  *)
(*                                                                         *)
(* Python values are modelled as records [t, v, items]:                    *)
(*   t = "num"  a finite float or int whose value is the integer v         *)
(*   t = "inf"  float infinity, v = 1 for +inf, v = -1 for -inf            *)
(*   t = "nan"  a float NaN; v is the identity of the float OBJECT, which  *)
(*              matters because tuple comparison tries `is` before `==`    *)
(*   t = "none" the value None (a value that is neither number nor         *)
(*              sequence)                                                  *)
(*   t = "list" / "tuple"  a list or a tuple, items = its elements; the    *)
(*              two are kept apart because [1, 2] == (1, 2) is False       *)
(*   t = "mat"  a PdfMatrix instance, items = the rows of self.values; an  *)
(*              instance met as a CELL of another instance is the same     *)
(*              object as another cell exactly when the two records are    *)
(*              equal (v tells apart two objects holding the same rows)    *)
(* Finite numbers are integers: every product and sum the model forms is   *)
(* far below 2^53, where double arithmetic on integers is exact.  An int   *)
(* and the float of the same value are one value here: Python compares     *)
(* them equal and '{:.6f}' formats them alike.                             *)
(***************************************************************************)
EXTENDS Integers, Sequences, FiniteSets, TLC

VARIABLES pool, last

vars == <<pool, last>>

\* ------------------------------------------------------------------ bounds
\* Largest finite coefficient offered to the constructor.
MaxCoef == 2
\* Number of live instances a run keeps.
MaxPool == 2

\* ------------------------------------------------------------ Python values
Num(n) == [t |-> "num", v |-> n, items |-> <<>>]
Inf == [t |-> "inf", v |-> 1, items |-> <<>>]
NegInf == [t |-> "inf", v |-> -1, items |-> <<>>]
NaNObj(id) == [t |-> "nan", v |-> id, items |-> <<>>]
\* math.nan: the one NaN object callers pass in.
NaN == NaNObj(0)
NoneVal == [t |-> "none", v |-> 0, items |-> <<>>]
List(xs) == [t |-> "list", v |-> 0, items |-> xs]
Tuple(xs) == [t |-> "tuple", v |-> 0, items |-> xs]
Mat(rows) == [t |-> "mat", v |-> 0, items |-> rows]

\* The outcome of a call: it returned val, or it raised the exception status.
Ok(x) == [status |-> "ok", val |-> x]
Raise(exc) == [status |-> exc, val |-> NoneVal]

IsFloatable(x) == x.t \in {"num", "inf", "nan"}
IsFinite(x) == x.t = "num"
IsSeq(x) == x.t \in {"list", "tuple"}

Sign(n) == IF n > 0 THEN 1 ELSE IF n < 0 THEN -1 ELSE 0

\* float * float on the modelled values; a NaN result is a new object `id`.
FMul(x, y, id) ==
    IF x.t = "nan" \/ y.t = "nan" THEN NaNObj(id)
    ELSE IF x.t = "inf" \/ y.t = "inf"
         THEN IF Sign(x.v) * Sign(y.v) = 0 THEN NaNObj(id)
              ELSE IF Sign(x.v) * Sign(y.v) > 0 THEN Inf ELSE NegInf
         ELSE Num(x.v * y.v)

\* float + float on the modelled values; a NaN result is a new object `id`.
FAdd(x, y, id) ==
    IF x.t = "nan" \/ y.t = "nan" THEN NaNObj(id)
    ELSE IF x.t = "inf" /\ y.t = "inf"
         THEN IF x.v = y.v THEN x ELSE NaNObj(id)
         ELSE IF x.t = "inf" THEN x
         ELSE IF y.t = "inf" THEN y
         ELSE Num(x.v + y.v)

\* ----------------------------------------------------------- __init__
\* lines 36-37: no arguments.
IdentityValues == Mat(<<Tuple(<<Num(1), Num(0), Num(0)>>),
                        Tuple(<<Num(0), Num(1), Num(0)>>),
                        Tuple(<<Num(0), Num(0), Num(1)>>)>>)

\* lines 39-42 and 46-49: a, b, c, d, e, f = map(float, xs), then the grid.
FromSix(xs) ==
    IF \E k \in 1..6 : ~IsFloatable(xs[k]) THEN Raise("TypeError")
    ELSE Ok(Mat(<<Tuple(<<xs[1], xs[2], Num(0)>>),
                  Tuple(<<xs[3], xs[4], Num(0)>>),
                  Tuple(<<xs[5], xs[6], Num(1)>>)>>))

\* lines 38-42: six positional arguments.
FromScalars(args) == FromSix(args)

\* A sequence path that unpacked the last two coefficients in the other
\* order would behave like this.
FromSequenceSwapped(s) ==
    FromSix(<<s.items[1], s.items[2], s.items[3], s.items[4], s.items[6], s.items[5]>>)

\* lines 45-49: one six-element sequence.
FromSequence(s) == FromSix(s.items)

\* A constructor that rejected a grid whose third column is not (0, 0, 1)
\* would behave like this.
FromGridValidated(g) ==
    IF \E k \in 2..3 : ~IsSeq(g.items[k]) THEN Raise("TypeError")
    ELSE IF \E k \in 1..3 : Len(g.items[k].items) # 3 THEN Raise("ValueError")
    ELSE IF <<g.items[1].items[3], g.items[2].items[3], g.items[3].items[3]>>
                # <<Num(0), Num(0), Num(1)>> THEN Raise("ValueError")
    ELSE Ok(Mat(<<Tuple(g.items[1].items), Tuple(g.items[2].items),
                  Tuple(g.items[3].items)>>))

\* lines 50-53: one sequence of three whose first element has length three;
\* each row is copied with tuple(), which fails on a row that is no
\* sequence; nothing else is looked at.
FromGrid(g) ==
    IF \E k \in 2..3 : ~IsSeq(g.items[k]) THEN Raise("TypeError")
    ELSE Ok(Mat(<<Tuple(g.items[1].items), Tuple(g.items[2].items),
                  Tuple(g.items[3].items)>>))

\* lines 33-56: the constructor's dispatch on the argument list.
init(args) ==
    IF Len(args) = 0 THEN Ok(IdentityValues)
    ELSE IF Len(args) = 6 THEN FromScalars(args)
    ELSE IF args[1].t = "mat" THEN Ok(Mat(args[1].items))
    ELSE IF ~IsSeq(args[1]) THEN Raise("TypeError")
    ELSE IF Len(args[1].items) = 6 THEN FromSequence(args[1])
    ELSE IF Len(args[1].items) = 3
         THEN IF ~IsSeq(args[1].items[1]) THEN Raise("TypeError")
              ELSE IF Len(args[1].items[1].items) = 3 THEN FromGrid(args[1])
              ELSE Raise("ValueError")
    ELSE Raise("ValueError")

\* ----------------------------------------------------------- identity
\* lines 58-61.
identity == init(<<>>).val

\* ----------------------------------------------------------- __matmul__
MinLen(rows) ==
    CHOOSE n \in 0..9 : /\ \A k \in 1..Len(rows) : n <= Len(rows[k].items)
                        /\ \E k \in 1..Len(rows) : n = Len(rows[k].items)

Min(x, y) == IF x < y THEN x ELSE y

\* sum(float(i) * float(j) for i, j in zip(row, col)): zip stops at the
\* shorter of the two, sum starts from the int 0.
RECURSIVE DotUpTo(_, _, _, _)
DotUpTo(row, col, n, id) ==
    IF n = 0 THEN Num(0)
    ELSE FAdd(DotUpTo(row, col, n - 1, id), FMul(row[n], col[n], id), id)

Dot(row, col, id) == DotUpTo(row, col, Min(Len(row), Len(col)), id)

\* zip(*b): column j of b, as many columns as b's shortest row has.
Column(b, j) == <<b.items[1].items[j], b.items[2].items[j], b.items[3].items[j]>>

\* lines 68-75 for a = left.values and b = right.values.  The nested list of
\* sums is handed to the constructor.  A NaN cell (r, j) of the product is the
\* new float object base * 10 + 3 (r - 1) + j.
Product(left, right, base) ==
    LET a == left.items
        ncols == MinLen(right.items)
        used(r) == 1..Min(Len(a[r].items), 3)
        bad == \E r \in 1..3 : \E j \in 1..ncols : \E k \in used(r) :
                  \/ ~IsFloatable(a[r].items[k])
                  \/ ~IsFloatable(Column(right, j)[k])
        cell(r, j) == Dot(a[r].items, Column(right, j), base * 10 + 3 * (r - 1) + j)
        row(r) == List([j \in 1..ncols |-> cell(r, j)])
    IN IF bad THEN Raise("TypeError")
       ELSE init(<<List(<<row(1), row(2), row(3)>>)>>)

\* A product that paired each row of a with a ROW of b (zip(*b) forgotten)
\* would behave like this.
matmulRowByRow(self, other, base) ==
    LET a == self.items
        b == other.items
        used(r, j) == 1..Min(Len(a[r].items), Len(b[j].items))
        bad == \E r \in 1..3 : \E j \in 1..3 : \E k \in used(r, j) :
                  \/ ~IsFloatable(a[r].items[k])
                  \/ ~IsFloatable(b[j].items[k])
        cell(r, j) == Dot(a[r].items, b[j].items, base * 10 + 3 * (r - 1) + j)
        row(r) == List([j \in 1..3 |-> cell(r, j)])
    IN IF bad THEN Raise("TypeError")
       ELSE init(<<List(<<row(1), row(2), row(3)>>)>>)

\* A product taken in the other order would behave like this.
matmulSwapped(self, other, base) == Product(other, self, base)

\* lines 63-75: self @ other.
matmul(self, other, base) == Product(self, other, base)

\* What a builder does with the matrix it constructs from its arguments.
Concat(self, made, base) ==
    IF made.status # "ok" THEN made ELSE matmul(self, made.val, base)

\* lines 77-79.
scaled(self, x, y, base) ==
    Concat(self, init(<<List(<<x, Num(0), Num(0), y, Num(0), Num(0)>>)>>), base)

\* A translation concatenated in front of the receiver instead of after it
\* would behave like this.
translatedBefore(self, x, y, base) ==
    LET made == init(<<List(<<Num(1), Num(0), Num(0), Num(1), x, y>>)>>)
    IN IF made.status # "ok" THEN made ELSE matmul(made.val, self, base)

\* lines 87-89.
translated(self, x, y, base) ==
    Concat(self, init(<<List(<<Num(1), Num(0), Num(0), Num(1), x, y>>)>>), base)

\* The angles whose sine and cosine are integers in double arithmetic:
\* cos(pi / 2) is 6.1e-17 and sin(pi) is 1.2e-16, so only 0 qualifies.
ExactAngles == {0}

\* lines 83-84: angle / 180.0 * pi, then cos and sin.  A non-number cannot
\* be divided, math.cos(inf) raises "math domain error", a NaN angle gives
\* NaN (new objects), and for angle 0 the pair is (1.0, 0.0), -s being -0.0.
CosSin(angle, base) ==
    IF ~IsFloatable(angle) THEN Raise("TypeError")
    ELSE IF angle.t = "inf" THEN Raise("ValueError")
    ELSE IF angle.t = "nan"
         THEN Ok(List(<<NaNObj(-(base * 10 + 1)), NaNObj(-(base * 10 + 2)),
                        NaNObj(-(base * 10 + 3))>>))
    ELSE CASE angle.v = 0 -> Ok(List(<<Num(1), Num(0), Num(0)>>))

\* lines 81-85.
rotated(self, angle_degrees_ccw, base) ==
    LET cs == CosSin(angle_degrees_ccw, base)
        c == cs.val.items[1]
        s == cs.val.items[2]
        negs == cs.val.items[3]
    IN IF cs.status # "ok" THEN cs
       ELSE Concat(self, init(<<List(<<c, s, negs, c, Num(0), Num(0)>>)>>), base)

\* ----------------------------------------------------------- accessors
\* lines 96-130: self.values[r][c], the position each name reads.
Position(name) ==
    CASE name = "a" -> <<1, 1>> [] name = "b" -> <<1, 2>>
      [] name = "c" -> <<2, 1>> [] name = "d" -> <<2, 2>>
      [] name = "e" -> <<3, 1>> [] name = "f" -> <<3, 2>>

Names == <<"a", "b", "c", "d", "e", "f">>

accessor(self, name) ==
    LET rc == Position(name)
        row == self.items[rc[1]].items
    IN IF rc[2] > Len(row) THEN Raise("IndexError") ELSE Ok(row[rc[2]])

\* lines 91-94.
shorthand(self) ==
    IF \E k \in 1..6 : accessor(self, Names[k]).status # "ok"
    THEN Raise("IndexError")
    ELSE Ok(Tuple([k \in 1..6 |-> accessor(self, Names[k]).val]))

\* ----------------------------------------------------------- __eq__
Bool(p) == [t |-> "bool", v |-> IF p THEN 1 ELSE 0, items |-> <<>>]

RECURSIVE PyEq(_, _)
RECURSIVE ItemsEq(_, _, _)
RECURSIVE eq(_, _)

\* line 134, the comparison of two elements inside tuple == tuple: identical
\* objects are equal without further ado; a NaN equals no other object; two
\* PdfMatrix cells are compared by __eq__; two lists, or two tuples, compare
\* element by element (lists of different lengths are unequal before any
\* element is looked at); a list never equals a tuple, nor a PdfMatrix a
\* value of another type.  A comparison of elements that raises makes the
\* whole comparison raise.
PyEq(x, y) ==
    IF x = y THEN Ok(Bool(TRUE))
    ELSE IF x.t = "nan" \/ y.t = "nan" THEN Ok(Bool(FALSE))
    ELSE IF x.t = "mat" /\ y.t = "mat" THEN eq(x, y)
    ELSE IF x.t = "list" /\ y.t = "list"
         THEN IF Len(x.items) # Len(y.items) THEN Ok(Bool(FALSE))
              ELSE ItemsEq(x.items, y.items, 1)
    ELSE IF x.t = "tuple" /\ y.t = "tuple" THEN ItemsEq(x.items, y.items, 1)
    ELSE Ok(Bool(FALSE))

\* line 134: the elements from position k on, left to right, up to the
\* first pair that is unequal or fails to compare; then the lengths.
ItemsEq(xs, ys, k) ==
    IF k > Min(Len(xs), Len(ys)) THEN Ok(Bool(Len(xs) = Len(ys)))
    ELSE IF PyEq(xs[k], ys[k]) # Ok(Bool(TRUE)) THEN PyEq(xs[k], ys[k])
    ELSE ItemsEq(xs, ys, k + 1)

\* lines 132-135: both shorthands are built, self's first, then compared.
eq(self, other) ==
    IF other.t = "mat"
    THEN IF shorthand(self).status # "ok" THEN shorthand(self)
         ELSE IF shorthand(other).status # "ok" THEN shorthand(other)
         ELSE ItemsEq(shorthand(self).val.items, shorthand(other).val.items, 1)
    ELSE Ok(Bool(FALSE))

\* ----------------------------------------------------------- encode
DigitChars == <<"0", "1", "2", "3", "4", "5", "6", "7", "8", "9">>

RECURSIVE Digits(_)
Digits(n) ==
    IF n < 10 THEN <<DigitChars[n + 1]>>
    ELSE Digits(n \div 10) \o <<DigitChars[(n % 10) + 1]>>

\* A format of five decimals would behave like this.
Format5f(x) ==
    IF x.t = "nan" THEN <<"n", "a", "n">>
    ELSE IF x.t = "inf"
         THEN (IF x.v < 0 THEN <<"-">> ELSE <<>>) \o <<"i", "n", "f">>
         ELSE (IF x.v < 0 THEN <<"-">> ELSE <<>>)
              \o Digits(IF x.v < 0 THEN -x.v ELSE x.v)
              \o <<".", "0", "0", "0", "0", "0">>

\* '{:.6f}' applied to one float, as a sequence of characters.
Format6f(x) ==
    IF x.t = "nan" THEN <<"n", "a", "n">>
    ELSE IF x.t = "inf"
         THEN (IF x.v < 0 THEN <<"-">> ELSE <<>>) \o <<"i", "n", "f">>
         ELSE (IF x.v < 0 THEN <<"-">> ELSE <<>>)
              \o Digits(IF x.v < 0 THEN -x.v ELSE x.v)
              \o <<".", "0", "0", "0", "0", "0", "0">>

RECURSIVE JoinUpTo(_, _)
JoinUpTo(fields, n) ==
    IF n = 1 THEN fields[1] ELSE JoinUpTo(fields, n - 1) \o <<" ">> \o fields[n]

Bytes(chars) == [t |-> "bytes", v |-> 0, items |-> chars]

\* lines 137-141.
encode(self) ==
    LET sh == shorthand(self)
    IN IF sh.status # "ok" THEN sh
       ELSE IF \E k \in 1..6 : ~IsFloatable(sh.val.items[k]) THEN Raise("TypeError")
       ELSE Ok(Bytes(JoinUpTo([k \in 1..6 |-> Format6f(sh.val.items[k])], 6)))

\* ------------------------------------------------------------ call inputs
\* Six coefficients (a, b, c, d, e, f) offered to the constructor: two integer
\* matrices that do not commute, one holding an infinity and one holding
\* math.nan.
SixArgs ==
    {<<Num(MaxCoef), Num(1), Num(0), Num(1), Num(0), Num(0)>>,
     <<Num(1), Num(0), Num(1), Num(1), Num(MaxCoef), Num(0)>>,
     <<Num(1), Num(0), Inf, Num(1), Num(0), Num(0)>>,
     <<Num(1), Num(0), Num(0), Num(1), NaN, Num(0)>>}

Row(x, y, z) == List(<<x, y, z>>)

\* Values that are no numbers, offered as the first cell of a grid: two
\* PdfMatrix objects with the same shorthand and different third columns, and
\* a list and a tuple of the same elements.
CellArgs ==
    {[Mat(<<Tuple(<<Num(1), Num(0), Num(1)>>), Tuple(<<Num(1), Num(1), Num(0)>>),
            Tuple(<<Num(MaxCoef), Num(0), Num(1)>>)>>) EXCEPT !.v = 1],
     [Mat(<<Tuple(<<Num(1), Num(0), Num(0)>>), Tuple(<<Num(1), Num(1), Num(0)>>),
            Tuple(<<Num(MaxCoef), Num(0), Num(1)>>)>>) EXCEPT !.v = 2],
     List(<<Num(1), Num(MaxCoef)>>),
     Tuple(<<Num(1), Num(MaxCoef)>>)}

\* Nested sequences offered as the single argument: a grid whose third
\* column is not (0, 0, 1), one whose second row is short, one holding None,
\* one whose second row is a number, one whose first row has two elements,
\* and the grids whose first cell is no number.
GridArgs ==
    {List(<<Row(Num(1), Num(0), Num(1)), Row(Num(1), Num(1), Num(0)),
            Row(Num(MaxCoef), Num(0), Num(1))>>),
     List(<<Row(Num(1), Num(0), Num(0)), List(<<Num(0)>>),
            Row(Num(0), Num(0), Num(1))>>),
     List(<<Row(Num(1), NoneVal, Num(0)), Row(Num(0), Num(1), Num(0)),
            Row(Num(0), Num(0), Num(1))>>),
     List(<<Row(Num(1), Num(0), Num(0)), Num(MaxCoef),
            Row(Num(0), Num(0), Num(1))>>),
     List(<<List(<<Num(1), Num(0)>>), Row(Num(0), Num(1), Num(0)),
            Row(Num(0), Num(0), Num(1))>>)}
    \cup {List(<<Row(c, Num(0), Num(0)), Row(Num(0), Num(1), Num(0)),
                 Row(Num(0), Num(0), Num(1))>>) : c \in CellArgs}

\* Argument lists of other shapes: five scalars, one sequence of four, one
\* None, and a six-element sequence followed by a second argument.
OtherArgs ==
    {<<Num(1), Num(2), Num(3), Num(4), Num(5)>>,
     <<List(<<Num(1), Num(2), Num(3), Num(4)>>)>>,
     <<NoneVal>>,
     <<List(<<Num(1), Num(0), Num(0), Num(1), Num(0), Num(0)>>), NoneVal>>}

\* Every argument list the model hands to PdfMatrix(...), copies aside.
ArgLists ==
    {<<>>} \cup SixArgs \cup {<<List(t)>> : t \in SixArgs}
    \cup {<<g>> : g \in GridArgs} \cup OtherArgs

\* The argument lists that do not use the nested-grid path.
StdArgLists == {<<>>} \cup SixArgs \cup {<<List(t)>> : t \in SixArgs}

ScaleArgs == {<<Num(2), Num(3)>>}
TranslateArgs == {<<Num(3), Num(4)>>, <<Num(5), Num(6)>>, <<Num(0), Inf>>}
AngleArgs == {Num(n) : n \in ExactAngles} \cup {Inf}
NonMatrices == {NoneVal,
                List(<<Num(1), Num(0), Num(0), Num(1), Num(0), Num(0)>>)}

\* ---------------------------------------------------------- state machine
\* pool: the instances constructed so far (they are immutable and compared
\* by value; a NaN cell carries the identity of its float object).
\* last: the most recent call, its arguments and how it ended.
Call(op, args, out) ==
    [op |-> op, args |-> args, status |-> out.status, ret |-> out.val]

Init ==
    /\ pool = {}
    /\ last = Call("none", <<>>, Ok(NoneVal))

\* The identity of the objects a product made now would allocate.
Fresh == Cardinality(pool) + 1

\* A call that returns an instance (or raises) ends in this way: the caller
\* keeps the new instance while it has room for one more reference.
Returns(op, args, out) ==
    /\ pool' = IF out.status = "ok" /\ Cardinality(pool) < MaxPool
               THEN pool \cup {out.val} ELSE pool
    /\ last' = Call(op, args, out)

\* A call that returns something else (or raises) ends in this way.
Answers(op, args, out) ==
    /\ pool' = pool
    /\ last' = Call(op, args, out)

\* PdfMatrix(*args); the caller holds at most MaxPool instances.
Construct ==
    /\ Cardinality(pool) <= MaxPool
    /\ \E args \in ArgLists : Returns("init", args, init(args))

ConstructStd ==
    /\ Cardinality(pool) <= MaxPool
    /\ \E args \in StdArgLists : Returns("init", args, init(args))

Copy == \E m \in pool : Returns("init", <<m>>, init(<<m>>))

Identity ==
    /\ Cardinality(pool) <= MaxPool
    /\ Returns("identity", <<>>, Ok(identity))

Matmul ==
    \E self \in pool : \E other \in pool :
        Returns("matmul", <<self, other>>, matmul(self, other, Fresh))

Scaled ==
    \E self \in pool : \E xy \in ScaleArgs :
        Returns("scaled", <<self, xy[1], xy[2]>>, scaled(self, xy[1], xy[2], Fresh))

Rotated ==
    \E self \in pool : \E angle \in AngleArgs :
        Returns("rotated", <<self, angle>>, rotated(self, angle, Fresh))

Translated ==
    \E self \in pool : \E xy \in TranslateArgs :
        Returns("translated", <<self, xy[1], xy[2]>>,
                translated(self, xy[1], xy[2], Fresh))

Accessor ==
    \E self \in pool : \E k \in 1..6 :
        Answers(Names[k], <<self>>, accessor(self, Names[k]))

Shorthand == \E self \in pool : Answers("shorthand", <<self>>, shorthand(self))

Eq ==
    \E self \in pool : \E other \in pool \cup NonMatrices :
        Answers("eq", <<self, other>>, eq(self, other))

Encode == \E self \in pool : Answers("encode", <<self>>, encode(self))

Next ==
    \/ Construct \/ Copy \/ Identity \/ Matmul \/ Scaled \/ Rotated
    \/ Translated \/ Accessor \/ Shorthand \/ Eq \/ Encode

Spec == Init /\ [][Next]_vars

\* The instance-producing calls alone, without the nested-grid constructor
\* path: every instance of a run descends from the other constructor paths.
NextStd ==
    \/ ConstructStd \/ Copy \/ Identity \/ Matmul \/ Scaled \/ Rotated
    \/ Translated

SpecStd == Init /\ [][NextStd]_vars

\* Construction by every path, composition, and the calls that read an
\* instance as a whole.
NextValue ==
    \/ Construct \/ Copy \/ Identity \/ Matmul \/ Shorthand \/ Eq \/ Encode

SpecValue == Init /\ [][NextValue]_vars

\* ------------------------------------------------------- reading a state
\* The instances alive in a state: the ones kept, and the one just returned.
Live == pool \cup (IF last.status = "ok" /\ last.ret.t = "mat" THEN {last.ret} ELSE {})

\* Identities for the float objects of products formed inside a formula;
\* they differ from every identity a run hands out.
Hyp1 == MaxPool + 2
Hyp2 == MaxPool + 3

Rows3(m) == \A r \in 1..3 : Len(m.items[r].items) = 3
WellFormed(m) == Rows3(m) /\ \A r \in 1..3 : \A k \in 1..3 : IsFloatable(m.items[r].items[k])
AllFinite(m) == Rows3(m) /\ \A r \in 1..3 : \A k \in 1..3 : IsFinite(m.items[r].items[k])
ThirdColumn(m) == <<m.items[1].items[3], m.items[2].items[3], m.items[3].items[3]>>
ThirdColumnOK(m) == Rows3(m) /\ ThirdColumn(m) = <<Num(0), Num(0), Num(1)>>
FiniteShorthand(m) ==
    /\ shorthand(m).status = "ok"
    /\ \A k \in 1..6 : IsFinite(shorthand(m).val.items[k])
Equal(x, y) == eq(x, y) = Ok(Bool(TRUE))
Same(x, y) == PyEq(x, y) = Ok(Bool(TRUE))
Returned(op) == last.op = op /\ last.status = "ok"

\* ------------------------------------------------------------------ C1
\* C1 as stated: every instance that descends from the no-argument, the
\* six-scalar, the six-element-sequence or the copy constructor through
\* compose, scaled, rotated and translated has third column exactly (0, 0, 1).
C1_ThirdColumnAlways == \A m \in Live : ThirdColumnOK(m)

\* C1 amended: every such instance whose six coefficients are all finite has
\* third column exactly (0, 0, 1).
C1_ThirdColumnWhenFinite == \A m \in Live : FiniteShorthand(m) => ThirdColumnOK(m)

C1_Witness ==
    /\ Returned("matmul")
    /\ last.args[1] # last.args[2]
    /\ last.ret \notin {last.args[1], last.args[2]}
    /\ FiniteShorthand(last.ret)
    /\ ThirdColumnOK(last.ret)

\* ------------------------------------------------------------------ C2
\* A single sequence of three sequences of three elements each.
IsGrid3x3(args) ==
    /\ Len(args) = 1
    /\ IsSeq(args[1])
    /\ Len(args[1].items) = 3
    /\ \A r \in 1..3 : IsSeq(args[1].items[r]) /\ Len(args[1].items[r].items) = 3

\* C2 as stated: constructing from a single 3x3 nested sequence never yields
\* an instance whose third column differs from (0, 0, 1).
C2_GridPathEnforcesThirdColumn ==
    (Returned("init") /\ IsGrid3x3(last.args)) => ThirdColumnOK(last.ret)

\* C2 amended: constructing from a single 3x3 nested sequence always succeeds
\* and copies the three rows verbatim, whatever the third column holds.
C2_GridPathCopiesVerbatim ==
    (last.op = "init" /\ IsGrid3x3(last.args))
        => /\ last.status = "ok"
           /\ last.ret.items = [r \in 1..3 |-> Tuple(last.args[1].items[r].items)]

C2_Witness ==
    /\ Returned("init")
    /\ IsGrid3x3(last.args)
    /\ ~ThirdColumnOK(last.ret)

\* ------------------------------------------------------------------ C3
IsScalar(x) == ~IsSeq(x) /\ x.t # "mat"

\* The shapes the constructor documents as accepted.
AcceptedShape(args) ==
    \/ Len(args) = 0
    \/ Len(args) = 6 /\ \A k \in 1..6 : IsScalar(args[k])
    \/ Len(args) = 1 /\ args[1].t = "mat"
    \/ Len(args) = 1 /\ IsSeq(args[1]) /\ Len(args[1].items) = 6
    \/ IsGrid3x3(args)

\* C3: an argument list of any other shape makes construction fail with
\* ValueError and yields no instance.
C3_InvalidShapesRaiseValueError ==
    (last.op = "init" /\ ~AcceptedShape(last.args)) => last.status = "ValueError"

\* ------------------------------------------------------------------ C4
\* C4 as stated: identity().compose(M) equals M and M.compose(identity())
\* equals M for every instance M that is a 3x3 grid of numbers.
C4_IdentityLaw ==
    Returned("matmul") =>
        /\ (last.args[1] = identity /\ WellFormed(last.args[2]))
               => Equal(last.ret, last.args[2])
        /\ (last.args[2] = identity /\ WellFormed(last.args[1]))
               => Equal(last.ret, last.args[1])

\* C4 amended: the identity law holds for every instance M whose nine grid
\* entries are finite numbers.
C4_IdentityLawFinite ==
    Returned("matmul") =>
        /\ (last.args[1] = identity /\ AllFinite(last.args[2]))
               => Equal(last.ret, last.args[2])
        /\ (last.args[2] = identity /\ AllFinite(last.args[1]))
               => Equal(last.ret, last.args[1])

C4_Witness ==
    /\ Returned("matmul")
    /\ last.args[1] = identity
    /\ last.args[2] # identity
    /\ AllFinite(last.args[2])
    /\ ~ThirdColumnOK(last.args[2])

\* ------------------------------------------------------------------ C5
\* C5: A.compose(B).compose(C) equals A.compose(B.compose(C)) exactly, for
\* instances whose entries are integers.
C5_Associative ==
    (Returned("matmul") /\ AllFinite(last.args[1]) /\ AllFinite(last.args[2])) =>
        \A C \in pool : AllFinite(C) =>
            Equal(matmul(last.ret, C, Hyp1).val,
                  matmul(last.args[1], matmul(last.args[2], C, Hyp1).val, Hyp2).val)

C5_Witness ==
    /\ Returned("matmul")
    /\ AllFinite(last.args[1]) /\ AllFinite(last.args[2])
    /\ ~Equal(last.ret, matmul(last.args[2], last.args[1], Hyp1).val)
    /\ \E C \in pool : /\ AllFinite(C)
                       /\ ~Equal(matmul(last.ret, C, Hyp1).val,
                                 matmul(C, last.ret, Hyp2).val)

\* ------------------------------------------------------------------ C6
\* The matrix translated(x, y) concatenates.
Translation(x, y) == init(<<Num(1), Num(0), Num(0), Num(1), x, y>>).val

Coef(m, k) == shorthand(m).val.items[k]

\* What C6 says of one call self.translated(x, y) that returned ret.
TranslatedAfter(self, x, y, ret) ==
    /\ Equal(ret, matmul(self, Translation(x, y), Hyp1).val)
    /\ Same(shorthand(ret).val,
            Tuple(<<Coef(self, 1), Coef(self, 2), Coef(self, 3), Coef(self, 4),
                    FAdd(Coef(self, 5), x, Hyp2), FAdd(Coef(self, 6), y, Hyp2)>>))

\* C6 as stated: for every instance M with third column (0, 0, 1) and all x, y,
\* M.translated(x, y) equals M.compose(matrix(1,0,0,1,x,y)) and has shorthand
\* (a, b, c, d, e+x, f+y).
C6_TranslationAfterReceiver ==
    (last.op = "translated" /\ ThirdColumnOK(last.args[1]) /\ WellFormed(last.args[1]))
        => /\ last.status = "ok"
           /\ TranslatedAfter(last.args[1], last.args[2], last.args[3], last.ret)

\* C6 amended: the same, for every instance M with third column (0, 0, 1)
\* whose six coefficients are finite and all finite x, y.
C6_TranslationAfterReceiverFinite ==
    (/\ last.op = "translated"
     /\ ThirdColumnOK(last.args[1]) /\ FiniteShorthand(last.args[1])
     /\ IsFinite(last.args[2]) /\ IsFinite(last.args[3]))
        => /\ last.status = "ok"
           /\ TranslatedAfter(last.args[1], last.args[2], last.args[3], last.ret)

\* identity().translated(3, 4).translated(5, 6) was just computed, on an
\* instance that is itself identity().translated(3, 4), or the other way round.
C6_Witness ==
    /\ Returned("translated")
    /\ shorthand(last.args[1]).val.items \in
           {<<Num(1), Num(0), Num(0), Num(1), Num(3), Num(4)>>,
            <<Num(1), Num(0), Num(0), Num(1), Num(5), Num(6)>>}
    /\ shorthand(last.ret).val.items
           = <<Num(1), Num(0), Num(0), Num(1), Num(8), Num(10)>>

\* ------------------------------------------------------------------ C7
\* What C7 says of six coefficients xs and the instance m built from them.
SamePaths(xs, m) ==
    LET bySeq == init(<<List(xs)>>)
        byArgs == init(xs)
        copy == init(<<m>>)
    IN /\ bySeq.status = "ok" /\ byArgs.status = "ok" /\ copy.status = "ok"
       /\ \A x \in {bySeq.val, byArgs.val, copy.val, init(<<bySeq.val>>).val} :
              /\ Equal(m, x) /\ Equal(x, m)
              /\ shorthand(x).status = "ok"
              /\ Same(shorthand(x).val, Tuple(xs))

\* C7: the instances built from six scalars, from one six-element sequence
\* and by copying either are pairwise equal and have the six coefficients as
\* shorthand; an instance is never equal to a value that is not a matrix.
C7_EqualAcrossPaths ==
    /\ (Returned("init") /\ Len(last.args) = 6) => SamePaths(last.args, last.ret)
    /\ (Returned("init") /\ Len(last.args) = 1 /\ IsSeq(last.args[1])
            /\ Len(last.args[1].items) = 6)
           => SamePaths(last.args[1].items, last.ret)
    /\ (last.op = "eq" /\ last.args[2].t # "mat")
           => last.status = "ok" /\ last.ret = Bool(FALSE)

C7_Witness ==
    /\ Returned("init")
    /\ Len(last.args) = 1 /\ IsSeq(last.args[1]) /\ Len(last.args[1].items) = 6
    /\ last.ret # identity
    /\ \E m \in pool : m # last.ret

\* ------------------------------------------------------------------ C8
\* Calls on an instance, made with finite numbers as scalar arguments.
InstanceOps ==
    {"matmul", "scaled", "rotated", "translated", "shorthand", "eq", "encode",
     "a", "b", "c", "d", "e", "f"}

FiniteScalars ==
    \A k \in 2..Len(last.args) : IsScalar(last.args[k]) => IsFinite(last.args[k])

\* C8: on every instance the constructor returned, compose, scaled, rotated,
\* translated, the accessors, shorthand, equals and encode complete without
\* raising.
C8_TotalAfterConstruction ==
    (last.op \in InstanceOps /\ FiniteScalars) => last.status = "ok"

\* ------------------------------------------------------------------ C9
IsDigit(ch) == \E k \in 1..10 : DigitChars[k] = ch
DigitValue(ch) == (CHOOSE k \in 1..10 : DigitChars[k] = ch) - 1

RECURSIVE Split(_)
Split(cs) ==
    IF \A i \in 1..Len(cs) : cs[i] # " " THEN <<cs>>
    ELSE LET i == CHOOSE i \in 1..Len(cs) :
                      cs[i] = " " /\ \A j \in 1..(i - 1) : cs[j] # " "
         IN <<SubSeq(cs, 1, i - 1)>> \o Split(SubSeq(cs, i + 1, Len(cs)))

RECURSIVE Value(_)
Value(ds) ==
    IF Len(ds) = 0 THEN 0
    ELSE 10 * Value(SubSeq(ds, 1, Len(ds) - 1)) + DigitValue(ds[Len(ds)])

\* field reads as the number n written with exactly six decimals.
IsFixed6(field, n) ==
    LET neg == Len(field) > 0 /\ field[1] = "-"
        body == IF neg THEN SubSeq(field, 2, Len(field)) ELSE field
        whole == SubSeq(body, 1, Len(body) - 7)
        frac == SubSeq(body, Len(body) - 5, Len(body))
    IN /\ Len(body) >= 8
       /\ body[Len(body) - 6] = "."
       /\ \A k \in 1..Len(whole) : IsDigit(whole[k])
       /\ \A k \in 1..6 : IsDigit(frac[k])
       /\ Value(frac) = 0
       /\ (IF neg THEN -Value(whole) ELSE Value(whole)) = n

\* Six fields, single spaces between them, nothing before or after, each a
\* decimal with six digits after the point.
SixFields(chars) ==
    /\ Len(Split(chars)) = 6
    /\ \A k \in 1..6 :
           LET field == Split(chars)[k]
           IN /\ Len(field) >= 8
              /\ field[Len(field) - 6] = "."
              /\ \A j \in (Len(field) - 5)..Len(field) : IsDigit(field[j])
              /\ \A j \in 1..(Len(field) - 7) : IsDigit(field[j]) \/ (j = 1 /\ field[j] = "-")

IdentityEncoding ==
    <<"1", ".", "0", "0", "0", "0", "0", "0", " ",
      "0", ".", "0", "0", "0", "0", "0", "0", " ",
      "0", ".", "0", "0", "0", "0", "0", "0", " ",
      "1", ".", "0", "0", "0", "0", "0", "0", " ",
      "0", ".", "0", "0", "0", "0", "0", "0", " ",
      "0", ".", "0", "0", "0", "0", "0", "0">>

\* C9 as stated: whatever encode() yields is six fields in the order a..f,
\* each with exactly six digits after the decimal point, single spaces
\* between, nothing around; for the identity it is the exact text.
C9_SixFixedFields ==
    Returned("encode") =>
        /\ SixFields(last.ret.items)
        /\ last.args[1] = identity => last.ret.items = IdentityEncoding

\* C9 amended: the same, for every instance whose six coefficients are finite
\* numbers, and field k is coefficient k.
C9_SixFixedFieldsFinite ==
    (last.op = "encode" /\ FiniteShorthand(last.args[1])) =>
        /\ last.status = "ok"
        /\ SixFields(last.ret.items)
        /\ \A k \in 1..6 : IsFixed6(Split(last.ret.items)[k], Coef(last.args[1], k).v)
        /\ last.args[1] = identity => last.ret.items = IdentityEncoding

C9_Witness ==
    /\ Returned("encode")
    /\ FiniteShorthand(last.args[1])
    /\ Coef(last.args[1], 1).v > 1
    /\ Coef(last.args[1], 5).v > 1

\* ------------------------------------------------------------------ C10
\* Two floats hold the same value: both are NaN, or neither is and they are
\* equal.
SameValue(x, y) == IF x.t = "nan" \/ y.t = "nan" THEN x.t = y.t ELSE x = y

NoNaN(m) == \A k \in 1..6 : Coef(m, k).t # "nan"

\* The two products were formed and are equal.
EqualProducts(p, q) == p.status = "ok" /\ q.status = "ok" /\ Equal(p.val, q.val)

\* The two products were formed and hold the same six coefficient values, so
\* that they are equal unless a coefficient is NaN.
SameProducts(p, q) ==
    /\ p.status = "ok" /\ q.status = "ok"
    /\ \A k \in 1..6 : SameValue(Coef(p.val, k), Coef(q.val, k))
    /\ NoNaN(p.val) => Equal(p.val, q.val)

\* A == B has just been evaluated on two instances and returned True.
FoundEqual == Returned("eq") /\ last.ret = Bool(TRUE) /\ last.args[2].t = "mat"

\* C10 as stated: for all instances A, B, C, nested-grid instances included,
\* if A equals B then A.compose(C) equals B.compose(C) and C.compose(A)
\* equals C.compose(B).
C10_Congruence ==
    FoundEqual =>
        \A C \in pool :
            /\ EqualProducts(matmul(last.args[1], C, Hyp1),
                             matmul(last.args[2], C, Hyp2))
            /\ EqualProducts(matmul(C, last.args[1], Hyp1),
                             matmul(C, last.args[2], Hyp2))

\* C10 amended: for all instances A, B, C whose values are three rows of
\* three numbers each, if A equals B then C.compose(A) and C.compose(B) are
\* formed and hold the same six coefficient values, hence are equal unless a
\* coefficient is NaN; and so do A.compose(C) and B.compose(C) when A and B
\* also have the same third column.
C10_CongruenceSameValues ==
    (FoundEqual /\ WellFormed(last.args[1]) /\ WellFormed(last.args[2])) =>
        \A C \in pool : WellFormed(C) =>
            /\ SameProducts(matmul(C, last.args[1], Hyp1),
                            matmul(C, last.args[2], Hyp2))
            /\ ThirdColumn(last.args[1]) = ThirdColumn(last.args[2])
                   => SameProducts(matmul(last.args[1], C, Hyp1),
                                   matmul(last.args[2], C, Hyp2))

\* Two equal instances with different third columns were just compared, and
\* a third instance whose product with them has no NaN, and whose products
\* with them on the other side differ, is alive.
C10_Witness ==
    /\ FoundEqual
    /\ WellFormed(last.args[1]) /\ WellFormed(last.args[2])
    /\ ThirdColumn(last.args[1]) # ThirdColumn(last.args[2])
    /\ \E C \in pool :
           /\ WellFormed(C)
           /\ NoNaN(matmul(C, last.args[1], Hyp1).val)
           /\ EqualProducts(matmul(C, last.args[1], Hyp1),
                            matmul(C, last.args[2], Hyp2))
           /\ ~EqualProducts(matmul(last.args[1], C, Hyp1),
                             matmul(last.args[2], C, Hyp2))

====
